---- MODULE Spec2Model ----
(***************************************************************************)
(* Model of the three page components of the generator application:        *)
(*   HomePage            identity generator        (src/unnamed/part_000)  *)
(*   MailPage            temporary mailbox list    (src/unnamed/part_000)  *)
(*   PhoneGeneratorPage  phone-number generator    (src/unnamed/part_001)  *)
(* and of the components they render:                                      *)
(*   DomainList          searchable domain list    (src/unnamed/part_000)  *)
(*   CountrySelector     searchable country list   (src/unnamed/part_001)  *)
(*   CountryFlag         lazily loaded flag icon   (src/unnamed/part_000)  *)
(* Each page is a route of its own; one page is open at a time.  React     *)
(* state is a record per page, setTimeout callbacks are entries of the     *)
(* sequence timers, local storage is the record storage.  The variable     *)
(* last records the handler that ran in the last step and how it ended     *)
(* (the console.error / haptic path it took).  The variable search is the  *)
(* state of the search box of the list that route names, and flag is one   *)
(* CountryFlag together with the module-level flag cache.                  *)
(***************************************************************************)
EXTENDS Integers, Sequences, FiniteSets, TLC

VARIABLES route, home, mail, phone, storage, timers, last, search, flag

vars == <<route, home, mail, phone, storage, timers, last, search, flag>>

\* ------------------------------------------------------------------------
\* Bounds of the model
\* ------------------------------------------------------------------------
MaxTimers == 2

\* ------------------------------------------------------------------------
\* Values
\* ------------------------------------------------------------------------
Null == "null"
NoIndex == 0 - 1
NaN == <<>>
None == {}
Some(v) == {v}
TheValue(opt) == CHOOSE v \in opt : TRUE

Min(a, b) == IF a < b THEN a ELSE b
Max(a, b) == IF a > b THEN a ELSE b
Floor(a, b) == a \div b
Ceil(a, b) == (a + b - 1) \div b

\* the handler of the last step: its name, the path it took, its string and
\* number argument, and (for some handlers) a value of the state before it
\* or the calls it made
StepPre(op, out, str, num, pre) ==
  [op |-> op, out |-> out, str |-> str, num |-> num, pre |-> pre]
Step(op, out, str, num) == StepPre(op, out, str, num, {})

\* ------------------------------------------------------------------------
\* Strings of decimal digits: parseInt(s, 10) and Number.prototype.toString
\* ------------------------------------------------------------------------
DigitChars == <<"0", "1", "2", "3", "4", "5", "6", "7", "8", "9">>
IsDigit(ch) == \E d \in 1..10 : DigitChars[d] = ch
DigitValue(ch) == (CHOOSE d \in 1..10 : DigitChars[d] = ch) - 1

RECURSIVE LeadingDigits(_)
LeadingDigits(s) ==
  IF s # <<>> /\ IsDigit(Head(s)) THEN <<Head(s)>> \o LeadingDigits(Tail(s)) ELSE <<>>

RECURSIVE DigitsValue(_, _)
DigitsValue(s, acc) ==
  IF s = <<>> THEN acc ELSE DigitsValue(Tail(s), acc * 10 + DigitValue(Head(s)))

\* parseInt: optional sign, then the longest run of digits; NaN without one
parseInt(s) ==
  LET neg == s # <<>> /\ Head(s) = "-"
      body == IF neg THEN Tail(s) ELSE s
      digits == LeadingDigits(body)
  IN IF digits = <<>> THEN NaN
     ELSE <<(IF neg THEN 0 - 1 ELSE 1) * DigitsValue(digits, 0)>>

RECURSIVE toString(_)
toString(n) ==
  IF n < 10 THEN <<DigitChars[n + 1]>>
  ELSE toString(n \div 10) \o <<DigitChars[(n % 10) + 1]>>

\* ------------------------------------------------------------------------
\* Timers (setTimeout / clearTimeout)
\* ------------------------------------------------------------------------
Timer(id, kind, delay, country, domain, count) ==
  [id |-> id, kind |-> kind, delay |-> delay, country |-> country,
   domain |-> domain, count |-> count]

TimerIds == {timers[i].id : i \in 1..Len(timers)}

\* The id of a timer whose handle the code does not keep is NoTimer.  Timer
\* ids are never reused by the browser: the id of a timer whose handle is
\* kept differs from every pending id and from every id still held in a ref.
NoTimer == 0
NewTimerId == CHOOSE n \in 1..(Len(timers) + 3) :
                 /\ n \notin TimerIds
                 /\ n # home.copyTimerRef
                 /\ n # search.timeoutRef

FiresInAnyOrder(i) == TRUE

\* a pending timer fires before every timer that was started later with an
\* equal or longer delay
CanFire(i) == \A j \in 1..(i - 1) : timers[j].delay > timers[i].delay

RemoveAt(s, i) == SubSeq(s, 1, i - 1) \o SubSeq(s, i + 1, Len(s))

clearTimeout(ts, id) == SelectSeq(ts, LAMBDA t : t.id # id)

\* ------------------------------------------------------------------------
\* PhoneGeneratorPage
\* ------------------------------------------------------------------------
phoneCountries == <<"US", "CN">>
PhoneCountryIds == {phoneCountries[i] : i \in 1..Len(phoneCountries)}

ITEMS_PER_PAGE == 20
MaxCount == 10000
SinglePassMax == 2000
batchSize == 1000
DefaultCount == 10
GenerateDelay == 150
CopyIndexDelay == 1500
CopyAllDelay == 2000

\* countries.find(c => c.id === savedCountryId)
FindCountry(id) == IF id \in PhoneCountryIds THEN id ELSE Null

\* phoneData.generatePhoneNumber(country, k): k numbers filled into the
\* template of country; an entry is represented by the country whose
\* template produced it
generatePhoneNumber(country, k) == [i \in 1..k |-> country]

PhoneInit ==
  [mounted |-> FALSE, selectedCountry |-> Null, generatedNumbers |-> <<>>,
   count |-> DefaultCount, copiedIndex |-> NoIndex, page |-> 0,
   isCopiedAll |-> FALSE, isGenerating |-> FALSE]

LoadFirstCountry(savedCountryId) == phoneCountries[1]

\* the selected country the settings-load effect installs
LoadCountry(savedCountryId) ==
  IF savedCountryId # Null /\ savedCountryId # ""
  THEN (IF FindCountry(savedCountryId) # Null THEN FindCountry(savedCountryId)
        ELSE phoneCountries[1])
  ELSE phoneCountries[1]

LoadCountIgnoresSaved(savedCount, count) == count

\* the count the settings-load effect installs
LoadCount(savedCount, count) ==
  IF savedCount # None /\ TheValue(savedCount) # <<>>
  THEN LET parsedCount == parseInt(TheValue(savedCount))
       IN IF parsedCount # NaN /\ parsedCount[1] > 0 /\ parsedCount[1] <= MaxCount
          THEN parsedCount[1] ELSE count
  ELSE count

\* settings-load effect; getItem may throw
PhoneLoadSettings ==
  /\ route = "phone" /\ ~phone.mounted
  /\ \E throws \in BOOLEAN :
       IF throws
       THEN /\ phone' = [phone EXCEPT !.mounted = TRUE,
                                      !.selectedCountry = phoneCountries[1]]
            /\ last' = Step("loadSettings", "readError", "", 0)
       ELSE /\ phone' = [phone EXCEPT !.mounted = TRUE,
                                      !.selectedCountry = LoadCountry(storage.country),
                                      !.count = LoadCount(storage.count, phone.count)]
            /\ last' = StepPre("loadSettings", "ok", "", 0, storage.count)
  /\ UNCHANGED <<search, flag, route, home, mail, storage, timers>>

SelectCountryKeepsPage(p, country) ==
  [p EXCEPT !.selectedCountry = country, !.generatedNumbers = <<>>]

\* the state part of handleSelectCountry
SelectCountryState(p, country) ==
  [p EXCEPT !.selectedCountry = country, !.generatedNumbers = <<>>, !.page = 0]

SelectCountrySaveFirst(country) ==
  /\ route = "phone" /\ phone.mounted
  /\ \E throws \in BOOLEAN :
       IF throws
       THEN /\ UNCHANGED <<phone, storage>>
            /\ last' = Step("selectCountry", "writeError", country, 0)
       ELSE /\ phone' = SelectCountryState(phone, country)
            /\ storage' = [storage EXCEPT !.country = country]
            /\ last' = Step("selectCountry", "ok", country, 0)
  /\ UNCHANGED <<search, flag, route, home, mail, timers>>

\* handleSelectCountry; setItem may throw
handleSelectCountry(country) ==
  /\ route = "phone" /\ phone.mounted
  /\ phone' = SelectCountryState(phone, country)
  /\ \E throws \in BOOLEAN :
       IF throws
       THEN storage' = storage /\ last' = Step("selectCountry", "writeError", country, 0)
       ELSE /\ storage' = [storage EXCEPT !.country = country]
            /\ last' = Step("selectCountry", "ok", country, 0)
  /\ UNCHANGED <<search, flag, route, home, mail, timers>>

CountOnChangeNoCap(count, value) ==
  LET val == parseInt(value)
  IN IF val # NaN /\ val[1] > 0 THEN val[1] ELSE count

\* the count after the onChange handler of the count input
CountOnChange(count, value) ==
  LET val == parseInt(value)
  IN IF val # NaN /\ val[1] > 0 /\ val[1] <= MaxCount THEN val[1] ELSE count

CountChange(value) ==
  /\ route = "phone" /\ phone.mounted
  /\ phone' = [phone EXCEPT !.count = CountOnChange(phone.count, value)]
  /\ last' = StepPre("countChange", "ok", "", 0, value)
  /\ UNCHANGED <<search, flag, route, home, mail, storage, timers>>

\* handleGenerate up to the setTimeout call; the button is disabled while
\* no country is selected or a generation is running
handleGenerate ==
  /\ route = "phone"
  /\ phone.selectedCountry # Null /\ ~phone.isGenerating
  /\ Len(timers) < MaxTimers
  /\ phone' = [phone EXCEPT !.isGenerating = TRUE, !.page = 0]
  /\ timers' = Append(timers, Timer(NoTimer, "generate", GenerateDelay,
                                    phone.selectedCountry, "", phone.count))
  /\ last' = Step("generate", "ok", phone.selectedCountry, phone.count)
  /\ UNCHANGED <<search, flag, route, home, mail, storage>>

FullBatchSize(count, i) == batchSize

CurrentBatchSize(count, i) == Min(batchSize, count - i * batchSize)

RECURSIVE BatchLoop(_, _, _, _, _)
BatchLoop(country, count, i, batches, allNumbers) ==
  IF i < batches
  THEN BatchLoop(country, count, i + 1, batches,
                 allNumbers \o generatePhoneNumber(country, CurrentBatchSize(count, i)))
  ELSE allNumbers

\* the sizes of the generatePhoneNumber calls of a run, in the order of the
\* calls
RECURSIVE BatchSizes(_, _, _, _)
BatchSizes(count, i, batches, sizes) ==
  IF i < batches
  THEN BatchSizes(count, i + 1, batches, Append(sizes, CurrentBatchSize(count, i)))
  ELSE sizes

GenerateCalls(count) ==
  IF count <= SinglePassMax THEN <<count>>
  ELSE BatchSizes(count, 0, Ceil(count, batchSize), <<>>)

\* the list the timer callback of handleGenerate installs
GenerateNumbers(country, count) ==
  IF count <= SinglePassMax
  THEN generatePhoneNumber(country, count)
  ELSE BatchLoop(country, count, 0, Ceil(count, batchSize), <<>>)

GenerateLeavesBusy(p, country, count) ==
  [p EXCEPT !.generatedNumbers = GenerateNumbers(country, count)]

\* the state the timer callback leaves when generation did not throw
GenerateDone(p, country, count) ==
  [p EXCEPT !.generatedNumbers = GenerateNumbers(country, count),
            !.isGenerating = FALSE]

\* the timer callback of handleGenerate; generatePhoneNumber and setItem
\* may throw
GenerateTimer(i) ==
  /\ route = "phone"
  /\ i \in 1..Len(timers) /\ timers[i].kind = "generate" /\ CanFire(i)
  /\ timers' = RemoveAt(timers, i)
  /\ \E out \in {"ok", "generationError", "writeError"} :
       /\ last' = StepPre("generateTimer", out, timers[i].country, timers[i].count,
                          IF out = "generationError" THEN <<>>
                          ELSE GenerateCalls(timers[i].count))
       /\ phone' = IF out = "generationError"
                   THEN [phone EXCEPT !.isGenerating = FALSE]
                   ELSE GenerateDone(phone, timers[i].country, timers[i].count)
       /\ storage' = IF out = "ok"
                     THEN [storage EXCEPT !.count = Some(toString(timers[i].count))]
                     ELSE storage
  /\ UNCHANGED <<search, flag, route, home, mail>>

totalPages == Ceil(Len(phone.generatedNumbers), ITEMS_PER_PAGE)

\* Array.prototype.slice(start, end) on an array of the given length: the
\* (zero-based) indices of the entries it returns, in order
slice(length, start, end) ==
  LET from == Min(start, length)
      to == Min(end, length)
  IN [k \in 1..Max(to - from, 0) |-> from + k - 1]

paginatedWithoutStart(length, page) ==
  slice(length, page * ITEMS_PER_PAGE, ITEMS_PER_PAGE)

\* paginatedNumbers of a list of the given length on a page:
\* generatedNumbers.slice(start, start + ITEMS_PER_PAGE)
paginatedNumbersAt(length, page) ==
  slice(length, page * ITEMS_PER_PAGE, page * ITEMS_PER_PAGE + ITEMS_PER_PAGE)

\* the indices of the numbers shown
paginatedIndices ==
  LET shown == paginatedNumbersAt(Len(phone.generatedNumbers), phone.page)
  IN {shown[k] : k \in 1..Len(shown)}

\* the rows clicked for copying: the first and the last row of the page of
\* numbers shown
CopyTargets ==
  LET start == phone.page * ITEMS_PER_PAGE
  IN paginatedIndices \cap {start, Min(start + ITEMS_PER_PAGE, Len(phone.generatedNumbers)) - 1}

PrevPage ==
  /\ route = "phone"
  /\ Len(phone.generatedNumbers) > 0 /\ totalPages > 1 /\ phone.page # 0
  /\ phone' = [phone EXCEPT !.page = Max(0, phone.page - 1)]
  /\ last' = Step("prevPage", "ok", "", 0)
  /\ UNCHANGED <<search, flag, route, home, mail, storage, timers>>

NextPage ==
  /\ route = "phone"
  /\ Len(phone.generatedNumbers) > 0 /\ totalPages > 1
  /\ ~(phone.page >= totalPages - 1)
  /\ phone' = [phone EXCEPT !.page = Min(totalPages - 1, phone.page + 1)]
  /\ last' = Step("nextPage", "ok", "", 0)
  /\ UNCHANGED <<search, flag, route, home, mail, storage, timers>>

\* PhoneGeneratorPage.handleCopy; clipboard.writeText may reject
PhoneHandleCopy(index) ==
  /\ route = "phone"
  /\ index \in CopyTargets
  /\ \E ok \in BOOLEAN :
       IF ok
       THEN /\ Len(timers) < MaxTimers
            /\ phone' = [phone EXCEPT !.copiedIndex = index]
            /\ timers' = Append(timers, Timer(NoTimer, "copyIndex", CopyIndexDelay, "", "", 0))
            /\ last' = Step("phoneCopy", "ok", "", index)
       ELSE /\ UNCHANGED <<phone, timers>>
            /\ last' = Step("phoneCopy", "clipboardError", "", index)
  /\ UNCHANGED <<search, flag, route, home, mail, storage>>

PhoneCopyTimer(i) ==
  /\ route = "phone"
  /\ i \in 1..Len(timers) /\ timers[i].kind = "copyIndex" /\ CanFire(i)
  /\ timers' = RemoveAt(timers, i)
  /\ phone' = [phone EXCEPT !.copiedIndex = NoIndex]
  /\ last' = Step("phoneCopyTimer", "ok", "", 0)
  /\ UNCHANGED <<search, flag, route, home, mail, storage>>

\* handleCopyAll; the button is rendered while the list is not empty
handleCopyAll ==
  /\ route = "phone"
  /\ Len(phone.generatedNumbers) > 0
  /\ \E ok \in BOOLEAN :
       IF ok
       THEN /\ Len(timers) < MaxTimers
            /\ phone' = [phone EXCEPT !.isCopiedAll = TRUE]
            /\ timers' = Append(timers, Timer(NoTimer, "copyAll", CopyAllDelay, "", "", 0))
            /\ last' = Step("copyAll", "ok", "", 0)
       ELSE /\ UNCHANGED <<phone, timers>>
            /\ last' = Step("copyAll", "clipboardError", "", 0)
  /\ UNCHANGED <<search, flag, route, home, mail, storage>>

CopyAllTimer(i) ==
  /\ route = "phone"
  /\ i \in 1..Len(timers) /\ timers[i].kind = "copyAll" /\ CanFire(i)
  /\ timers' = RemoveAt(timers, i)
  /\ phone' = [phone EXCEPT !.isCopiedAll = FALSE]
  /\ last' = Step("copyAllTimer", "ok", "", 0)
  /\ UNCHANGED <<search, flag, route, home, mail, storage>>

\* ------------------------------------------------------------------------
\* MailPage
\* ------------------------------------------------------------------------
tempMailList == <<"m1", "m2", "m3">>
MailIds == {tempMailList[i] : i \in 1..Len(tempMailList)}
CopyIdDelay == 1500

\* mailData.isFavorite(id): membership in the persisted set of ids
isFavorite(id) == id \in storage.favorites

\* mailData.toggleFavorite(mail): flips the persisted membership
toggleFavoriteStore(favs, id) == IF id \in favs THEN favs \ {id} ELSE favs \cup {id}
\* ... and returns the new status
toggleFavoriteResult(id) == ~isFavorite(id)

MailInit == [mounted |-> FALSE, favorites |-> {}, copiedId |-> Null]

LoadNoFavorites ==
  /\ route = "mail" /\ ~mail.mounted
  /\ mail' = [mail EXCEPT !.mounted = TRUE]
  /\ last' = Step("loadFavorites", "ok", "", 0)
  /\ UNCHANGED <<search, flag, route, home, phone, storage, timers>>

\* favorites-load effect
MailLoadFavorites ==
  /\ route = "mail" /\ ~mail.mounted
  /\ mail' = [mail EXCEPT !.mounted = TRUE,
                          !.favorites = {id \in MailIds : isFavorite(id)}]
  /\ last' = Step("loadFavorites", "ok", "", 0)
  /\ UNCHANGED <<search, flag, route, home, phone, storage, timers>>

AlwaysAddFavorite(prev, id, newIsFav) == prev \cup {id}

\* the updater handleToggleFavorite passes to setFavorites
ToggleFavoriteState(prev, id, newIsFav) ==
  IF newIsFav THEN prev \cup {id} ELSE prev \ {id}

\* last.num counts the toggles of the same mailbox in a row (1 or 2+)
handleToggleFavorite(id) ==
  /\ route = "mail" /\ mail.mounted
  /\ storage' = [storage EXCEPT !.favorites = toggleFavoriteStore(@, id)]
  /\ mail' = [mail EXCEPT !.favorites = ToggleFavoriteState(@, id, toggleFavoriteResult(id))]
  /\ last' = StepPre("toggleFavorite", "ok", id,
                     IF last.op = "toggleFavorite" /\ last.str = id THEN 2 ELSE 1,
                     mail.favorites)
  /\ UNCHANGED <<search, flag, route, home, phone, timers>>

\* MailPage.handleCopy; clipboard.writeText may reject
MailHandleCopy(id) ==
  /\ route = "mail" /\ mail.mounted
  /\ \E ok \in BOOLEAN :
       IF ok
       THEN /\ Len(timers) < MaxTimers
            /\ mail' = [mail EXCEPT !.copiedId = id]
            /\ timers' = Append(timers, Timer(NoTimer, "copyId", CopyIdDelay, "", "", 0))
            /\ last' = Step("mailCopy", "ok", id, 0)
       ELSE /\ UNCHANGED <<mail, timers>>
            /\ last' = Step("mailCopy", "clipboardError", id, 0)
  /\ UNCHANGED <<search, flag, route, home, phone, storage>>

MailCopyTimer(i) ==
  /\ route = "mail"
  /\ i \in 1..Len(timers) /\ timers[i].kind = "copyId" /\ CanFire(i)
  /\ timers' = RemoveAt(timers, i)
  /\ mail' = [mail EXCEPT !.copiedId = Null]
  /\ last' = Step("mailCopyTimer", "ok", "", 0)
  /\ UNCHANGED <<search, flag, route, home, phone, storage>>

\* ------------------------------------------------------------------------
\* HomePage
\* ------------------------------------------------------------------------
countries == <<"US", "JP">>
CountryCodes == {countries[i] : i \in 1..Len(countries)}
AllDomains == {"a.com", "b.com"}
Undefined == "undefined"
\* the labels of the six rows: lastName stands for the label of the family
\* name row, firstName, birthday, phone, password and email for the others
Labels == {"lastName", "firstName", "birthday", "phone", "password", "email"}
CopyFieldDelay == 2000

IpPlaceholder == [ip |-> "...", country |-> "US"]
IpFallback == [ip |-> "unknown", country |-> "US"]

\* generator.getCountryConfig(code): the configuration of a known code
getCountryConfig(code) == IF code \in CountryCodes THEN code ELSE Undefined

\* The generator functions return random values.  A value is represented by
\* the generation run that produced it (run) and the argument it was
\* generated for (of).
generateName(code, run) ==
  [firstName |-> [run |-> run, of |-> code], lastName |-> [run |-> run, of |-> code]]
generateBirthday(run) == [run |-> run, of |-> ""]
generatePhone(country, run) == [run |-> run, of |-> country]
generatePassword(run) == [run |-> run, of |-> ""]
\* generator.generateEmail: the custom domain when one is passed, a domain
\* picked from the domain list (pick) otherwise
generateEmail(run, customDomain, pick) ==
  [run |-> run, of |-> IF customDomain = Undefined THEN pick ELSE customDomain]

Runs(u) == {u.firstName.run, u.lastName.run, u.birthday.run, u.phone.run,
            u.password.run, u.email.run}
\* a run whose values differ from every value of the record shown
FreshRun(u) == CHOOSE n \in 0..6 : n \notin Runs(u)

\* const customDomain = selectedDomain === 'random' ? undefined : selectedDomain
CustomDomain(selectedDomain) ==
  IF selectedDomain = "random" THEN Undefined ELSE selectedDomain

EmailOnlyUserInfo(u, country, selectedDomain, pick) ==
  [u EXCEPT !.email = generateEmail(FreshRun(u), CustomDomain(selectedDomain), pick)]

\* the six generator calls of one run and the record passed to setUserInfo
GenerateUserInfo(u, country, selectedDomain, pick) ==
  LET run == FreshRun(u)
      name == generateName(country, run)
      birthday == generateBirthday(run)
      phoneNo == generatePhone(country, run)
      password == generatePassword(run)
      customDomain == CustomDomain(selectedDomain)
      email == generateEmail(run, customDomain, pick)
  IN [firstName |-> name.firstName, lastName |-> name.lastName,
      birthday |-> birthday, phone |-> phoneNo, password |-> password,
      email |-> email]

HomeInit(pick) ==
  [mounted |-> FALSE, unmounted |-> FALSE,
   selectedCountry |-> countries[1], selectedDomain |-> "random",
   userInfo |-> [firstName |-> generateName(countries[1], 0).firstName,
                 lastName |-> generateName(countries[1], 0).lastName,
                 birthday |-> generateBirthday(0),
                 phone |-> generatePhone(countries[1], 0),
                 password |-> generatePassword(0),
                 email |-> generateEmail(0, Undefined, pick)],
   ipInfo |-> IpPlaceholder, copiedField |-> Null, copyTimerRef |-> NoTimer,
   inboxStatus |-> "idle", isGenerating |-> FALSE,
   ipLookup |-> "idle", detectDomain |-> "random"]

GenerateStartKeepsCopied(h) == [h EXCEPT !.isGenerating = TRUE]

\* generate(): the state it sets before the setTimeout call
GenerateStart(h) == [h EXCEPT !.isGenerating = TRUE, !.copiedField = Null]
\* ... and the timer it starts, whose callback closes over the selected
\* country and the selected domain of the render generate belongs to
GenerateTimerOf(h) ==
  Timer(NoTimer, "homeGenerate", GenerateDelay, h.selectedCountry, h.selectedDomain, 0)

\* mount: the detectIP effect starts the fetch, closing over the domain of
\* the first render, and the country-change effect calls generate()
HomeMount ==
  /\ route = "home" /\ ~home.mounted /\ ~home.unmounted
  /\ home' = GenerateStart([home EXCEPT !.mounted = TRUE, !.ipLookup = "pending",
                                        !.detectDomain = home.selectedDomain])
  /\ timers' = Append(timers, GenerateTimerOf(home))
  /\ last' = Step("homeMount", "ok", "", 0)
  /\ UNCHANGED <<search, flag, route, mail, phone, storage>>

\* the generate button, disabled while isGenerating
HomeGenerate ==
  /\ route = "home" /\ home.mounted /\ ~home.isGenerating
  /\ Len(timers) < MaxTimers
  /\ home' = GenerateStart(home)
  /\ timers' = Append(timers, GenerateTimerOf(home))
  /\ last' = Step("homeGenerate", "ok", "", 0)
  /\ UNCHANGED <<search, flag, route, mail, phone, storage>>

\* the state the timer callback of generate() leaves when no generator threw
GenerateRun(h, country, selectedDomain, pick) ==
  [h EXCEPT !.userInfo = GenerateUserInfo(h.userInfo, country, selectedDomain, pick),
            !.isGenerating = FALSE]

\* the timer callback of generate(); a generator call may throw
HomeGenerateTimer(i) ==
  /\ route = "home"
  /\ i \in 1..Len(timers) /\ timers[i].kind = "homeGenerate" /\ CanFire(i)
  /\ timers' = RemoveAt(timers, i)
  /\ \/ /\ \E pick \in AllDomains :
             home' = GenerateRun(home, timers[i].country, timers[i].domain, pick)
        /\ last' = Step("homeGenerateTimer", "ok", CustomDomain(timers[i].domain), 0)
     \/ /\ home' = [home EXCEPT !.isGenerating = FALSE]
        /\ last' = Step("homeGenerateTimer", "generationError", "", 0)
  /\ UNCHANGED <<search, flag, route, mail, phone, storage>>

\* handleCountrySelect, followed by the country-change effect, which calls
\* generate() of the new render when selectedCountry.code changed
handleCountrySelect(country) ==
  /\ route = "home" /\ home.mounted
  /\ IF country # home.selectedCountry
     THEN /\ Len(timers) < MaxTimers
          /\ home' = GenerateStart([home EXCEPT !.selectedCountry = country])
          /\ timers' = Append(timers, GenerateTimerOf([home EXCEPT !.selectedCountry = country]))
     ELSE UNCHANGED <<home, timers>>
  /\ last' = Step("countrySelect", "ok", country, 0)
  /\ UNCHANGED <<search, flag, route, mail, phone, storage>>

handleDomainSelect(domain) ==
  /\ route = "home" /\ home.mounted
  /\ home' = [home EXCEPT !.selectedDomain = domain]
  /\ last' = Step("domainSelect", "ok", domain, 0)
  /\ UNCHANGED <<search, flag, route, mail, phone, storage, timers>>

CopyWithoutClear(label) ==
  /\ route = "home" /\ home.mounted
  /\ \E ok \in BOOLEAN :
       IF ok
       THEN LET id == NewTimerId
            IN /\ Len(timers) < MaxTimers
               /\ home' = [home EXCEPT !.copiedField = label, !.copyTimerRef = id]
               /\ timers' = Append(timers, Timer(id, "copyField", CopyFieldDelay, "", "", 0))
               /\ last' = StepPre("homeCopy", "ok", label, 0, home.copiedField)
       ELSE /\ UNCHANGED <<home, timers>>
            /\ last' = StepPre("homeCopy", "clipboardError", label, 0, home.copiedField)
  /\ UNCHANGED <<search, flag, route, mail, phone, storage>>

CopyClearsBeforeWrite(label) ==
  /\ route = "home" /\ home.mounted
  /\ LET cleared == IF home.copyTimerRef # NoTimer
                    THEN clearTimeout(timers, home.copyTimerRef) ELSE timers
         id == NewTimerId
     IN \E ok \in BOOLEAN :
          IF ok
          THEN /\ Len(cleared) < MaxTimers
               /\ home' = [home EXCEPT !.copiedField = label, !.copyTimerRef = id]
               /\ timers' = Append(cleared, Timer(id, "copyField", CopyFieldDelay, "", "", 0))
               /\ last' = StepPre("homeCopy", "ok", label, 0, home.copiedField)
          ELSE /\ home' = home
               /\ timers' = cleared
               /\ last' = StepPre("homeCopy", "clipboardError", label, 0, home.copiedField)
  /\ UNCHANGED <<search, flag, route, mail, phone, storage>>

\* copyToClipboard(text, label); clipboard.writeText may reject
copyToClipboard(label) ==
  /\ route = "home" /\ home.mounted
  /\ \E ok \in BOOLEAN :
       IF ok
       THEN LET cleared == IF home.copyTimerRef # NoTimer
                           THEN clearTimeout(timers, home.copyTimerRef) ELSE timers
                id == NewTimerId
            IN /\ Len(cleared) < MaxTimers
               /\ home' = [home EXCEPT !.copiedField = label, !.copyTimerRef = id]
               /\ timers' = Append(cleared, Timer(id, "copyField", CopyFieldDelay, "", "", 0))
               /\ last' = StepPre("homeCopy", "ok", label, 0, home.copiedField)
       ELSE /\ UNCHANGED <<home, timers>>
            /\ last' = StepPre("homeCopy", "clipboardError", label, 0, home.copiedField)
  /\ UNCHANGED <<search, flag, route, mail, phone, storage>>

HomeCopyTimer(i) ==
  /\ route = "home"
  /\ i \in 1..Len(timers) /\ timers[i].kind = "copyField" /\ CanFire(i)
  /\ timers' = RemoveAt(timers, i)
  /\ home' = [home EXCEPT !.copiedField = Null]
  /\ last' = Step("homeCopyTimer", "ok", "", 0)
  /\ UNCHANGED <<search, flag, route, mail, phone, storage>>

IpLookupFailedSilently(h) == [h EXCEPT !.ipLookup = "done"]

\* detectIP: the catch branch
IpLookupFailed(h) ==
  IF h.mounted THEN [h EXCEPT !.ipInfo = IpFallback, !.ipLookup = "done"]
  ELSE [h EXCEPT !.ipLookup = "done"]

\* detectIP: setIpInfo({ ip: data.ip || fallback, country: data.country || 'US' })
IpInfoOf(data) ==
  [ip |-> IF data.ip # Undefined THEN data.ip ELSE "unknown",
   country |-> IF data.country # Undefined THEN data.country ELSE "US"]

IpResponse(ip, country, accurate) == [ip |-> ip, country |-> country, accurate |-> accurate]
\* responses of /api/ip-info: with and without ip and country, a country
\* other than the selected one, the selected one, an unknown one
IpResponses ==
  {IpResponse("1.2.3.4", "JP", TRUE), IpResponse("1.2.3.4", "JP", FALSE),
   IpResponse(Undefined, "US", TRUE), IpResponse("1.2.3.4", "ZZ", TRUE),
   IpResponse("1.2.3.4", Undefined, TRUE)}

\* detectIP: fetch or response.json() rejects
IpLookupError ==
  /\ route = "home" /\ home.ipLookup = "pending"
  /\ home' = IpLookupFailed(home)
  /\ \E out \in {"fetchError", "parseError"} : last' = Step("ipResult", out, "", 0)
  /\ UNCHANGED <<search, flag, route, mail, phone, storage, timers>>

\* the country-change effect after a commit that took the page from h to g
CountryEffect(h, g) ==
  IF g.selectedCountry # h.selectedCountry
  THEN /\ home' = GenerateStart(g)
       /\ timers' = Append(timers, GenerateTimerOf(g))
  ELSE /\ home' = g
       /\ timers' = timers

DetectionIgnoresAccuracy(data) ==
  data.country # Undefined /\ getCountryConfig(data.country) # Undefined

\* detectIP: data.country && data.accurate, and getCountryConfig finds the
\* country
DetectionApplies(data) ==
  data.country # Undefined /\ data.accurate /\ getCountryConfig(data.country) # Undefined

\* detectIP: the response arrived and was parsed; a generator call may throw
IpLookupResult(data) ==
  /\ route = "home" /\ home.ipLookup = "pending"
  /\ Len(timers) < MaxTimers
  /\ LET shown == [home EXCEPT !.ipInfo = IpInfoOf(data), !.ipLookup = "done"]
         detectedCountry == getCountryConfig(data.country)
     IN IF ~home.mounted
        THEN /\ home' = [home EXCEPT !.ipLookup = "done"]
             /\ timers' = timers
             /\ last' = Step("ipResult", "unmounted", "", 0)
        ELSE IF DetectionApplies(data)
        THEN \/ /\ \E pick \in AllDomains :
                     CountryEffect(home,
                       [shown EXCEPT !.selectedCountry = detectedCountry,
                                     !.userInfo = GenerateUserInfo(home.userInfo,
                                                    detectedCountry, home.detectDomain, pick)])
                /\ last' = StepPre("ipResult", "generated", CustomDomain(home.detectDomain), 0, data)
             \/ /\ CountryEffect(home,
                       IpLookupFailed([shown EXCEPT !.selectedCountry = detectedCountry]))
                /\ last' = StepPre("ipResult", "generationError", "", 0, data)
        ELSE /\ home' = shown
             /\ timers' = timers
             /\ last' = StepPre("ipResult", "shown", "", 0, data)
  /\ UNCHANGED <<search, flag, route, mail, phone, storage>>

\* the page is left for another route: the cleanup of the detectIP effect
\* sets isMounted to false; the pending fetch and the pending timers stay.
\* From here on the record home holds what the setters were last called with
HomeUnmount ==
  /\ route = "home" /\ home.mounted
  /\ home' = [home EXCEPT !.mounted = FALSE, !.unmounted = TRUE]
  /\ last' = Step("homeUnmount", "ok", "", 0)
  /\ UNCHANGED <<search, flag, route, mail, phone, storage, timers>>

\* the inbox button: handleInboxClick and its timer
InboxDelay == 600

\* userInfo.email.split('@')[0]: the part before the '@', which the
\* generation run of the address produced; the domain is dropped
EmailName(email) == email.run

\* the timer handleInboxClick starts; its callback closes over emailName
InboxTimerOf(h) ==
  Timer(NoTimer, "inbox", InboxDelay, "", "", EmailName(h.userInfo.email))

InboxClickUnguarded ==
  /\ route = "home" /\ home.mounted
  /\ Len(timers) < MaxTimers
  /\ home' = [home EXCEPT !.inboxStatus = "opening"]
  /\ timers' = Append(timers, InboxTimerOf(home))
  /\ last' = Step("inboxClick", "ok", "", EmailName(home.userInfo.email))
  /\ UNCHANGED <<search, flag, route, mail, phone, storage>>

\* handleInboxClick: if (inboxStatus === 'opening') return
handleInboxClick ==
  /\ route = "home" /\ home.mounted
  /\ IF home.inboxStatus = "opening"
     THEN /\ UNCHANGED <<home, timers>>
          /\ last' = Step("inboxClick", "ignored", "", 0)
     ELSE /\ Len(timers) < MaxTimers
          /\ home' = [home EXCEPT !.inboxStatus = "opening"]
          /\ timers' = Append(timers, InboxTimerOf(home))
          /\ last' = Step("inboxClick", "ok", "", EmailName(home.userInfo.email))
  /\ UNCHANGED <<search, flag, route, mail, phone, storage>>

\* its timer callback: window.open for the login emailName, then
\* setInboxStatus('idle'); last.num is the login of the window opened
InboxTimer(i) ==
  /\ route = "home"
  /\ i \in 1..Len(timers) /\ timers[i].kind = "inbox" /\ CanFire(i)
  /\ timers' = RemoveAt(timers, i)
  /\ home' = [home EXCEPT !.inboxStatus = "idle"]
  /\ last' = Step("inboxTimer", "ok", "", timers[i].count)
  /\ UNCHANGED <<search, flag, route, mail, phone, storage>>

\* ------------------------------------------------------------------------
\* CountryFlag and the module-level flagCache
\* ------------------------------------------------------------------------
\* country codes passed as countryCode, and those the icon module exports
FlagCodes == {"US", "JP", "ZZ"}
FlagExports == {"US", "JP"}

\* a flag icon is named by the code it is exported under; flagCache maps a
\* code to the icon stored for it, so it is the set of cached codes.  A load
\* in flight carries its code and the variable mounted of its effect run
FlagLoad(code, mounted) == [code |-> code, mounted |-> mounted]

\* useState(() => flagCache.get(countryCode) || null)
FlagInit(code, cache) ==
  [mounted |-> FALSE, unmounted |-> FALSE, cache |-> cache, countryCode |-> code,
   FlagComponent |-> IF code \in cache THEN code ELSE Null, loads |-> {}]

\* the effect on [countryCode]
FlagEffect(f) ==
  IF f.countryCode \in f.cache
  THEN [f EXCEPT !.FlagComponent = f.countryCode]
  ELSE [f EXCEPT !.loads = @ \cup {FlagLoad(f.countryCode, TRUE)}]

\* its cleanup: mounted = false
FlagCleanup(f) == [f EXCEPT !.loads = {FlagLoad(ld.code, FALSE) : ld \in @}]

FlagMount ==
  /\ ~flag.mounted /\ ~flag.unmounted
  /\ flag' = FlagEffect([flag EXCEPT !.mounted = TRUE])
  /\ last' = Step("flagMount", "ok", flag.countryCode, 0)
  /\ UNCHANGED <<search, route, home, mail, phone, storage, timers>>

\* the parent renders the flag with another country code
FlagPropChange(code) ==
  /\ flag.mounted /\ code # flag.countryCode
  /\ flag' = FlagEffect(FlagCleanup([flag EXCEPT !.countryCode = code]))
  /\ last' = Step("flagProp", "ok", code, 0)
  /\ UNCHANGED <<search, route, home, mail, phone, storage, timers>>

FlagUnmount ==
  /\ flag.mounted
  /\ flag' = FlagCleanup([flag EXCEPT !.mounted = FALSE, !.unmounted = TRUE])
  /\ last' = Step("flagUnmount", "ok", flag.countryCode, 0)
  /\ UNCHANGED <<search, route, home, mail, phone, storage, timers>>

\* loadFlagIcon after the import: the icon exported under the code, or null
loadFlagIcon(code, imported) ==
  IF imported /\ code \in FlagExports THEN code ELSE Null

FlagResolvedUnguarded(f, ld, component) ==
  IF component # Null THEN [f EXCEPT !.FlagComponent = component] ELSE f

\* .then(component => { if (mounted && component) setFlagComponent(...) })
FlagResolved(f, ld, component) ==
  IF ld.mounted /\ component # Null THEN [f EXCEPT !.FlagComponent = component] ELSE f

\* a load settles: the import succeeded or failed
FlagLoadDone(ld, imported) ==
  /\ ld \in flag.loads
  /\ LET component == loadFlagIcon(ld.code, imported)
         cached == IF component # Null THEN flag.cache \cup {ld.code} ELSE flag.cache
     IN /\ flag' = FlagResolved([flag EXCEPT !.cache = cached, !.loads = @ \ {ld}],
                                ld, component)
        /\ last' = Step("flagLoad", IF component # Null THEN "ok" ELSE "none", ld.code, 0)
  /\ UNCHANGED <<search, route, home, mail, phone, storage, timers>>

\* another CountryFlag of the page loaded the icon of a code into the cache
OtherFlagLoaded(code) ==
  /\ code \in FlagExports /\ code \notin flag.cache
  /\ flag' = [flag EXCEPT !.cache = @ \cup {code}]
  /\ last' = Step("otherFlag", "ok", code, 0)
  /\ UNCHANGED <<search, route, home, mail, phone, storage, timers>>

NextFlag ==
  \/ FlagMount
  \/ \E c \in FlagCodes : FlagPropChange(c)
  \/ FlagUnmount
  \/ \E ld \in flag.loads : \E imported \in BOOLEAN : FlagLoadDone(ld, imported)
  \/ \E c \in FlagCodes : OtherFlagLoaded(c)


\* ------------------------------------------------------------------------
\* Text: String.prototype.toLowerCase and String.prototype.includes
\* ------------------------------------------------------------------------
UpperChars == <<"A", "B", "D">>
LowerChars == <<"a", "b", "d">>

toLowerChar(ch) ==
  IF \E k \in 1..Len(UpperChars) : UpperChars[k] = ch
  THEN LowerChars[CHOOSE k \in 1..Len(UpperChars) : UpperChars[k] = ch]
  ELSE ch

keepCase(s) == s

toLowerCase(s) == [i \in 1..Len(s) |-> toLowerChar(s[i])]

startsWith(s, q) == Len(q) <= Len(s) /\ SubSeq(s, 1, Len(q)) = q

\* s.includes(q): q starts at some position of s
RECURSIVE includes(_, _)
includes(s, q) ==
  IF startsWith(s, q) THEN TRUE
  ELSE IF s = <<>> THEN FALSE
  ELSE includes(Tail(s), q)

\* ------------------------------------------------------------------------
\* The searchable lists: DomainList, the mailbox list of MailPage and
\* CountrySelector.  search is the search box of the list that route names
\* ------------------------------------------------------------------------
ListSize == 120
NamePrefixes == <<"a", "B", "d">>
\* the i-th name of a static list: a letter, the digits of i and a suffix
ListName(i) == <<NamePrefixes[(i % 3) + 1]>> \o toString(i) \o <<".", "c">>

\* the prop allDomains of DomainList and the table searchCountries filters
allDomains == [i \in 1..ListSize |-> ListName(i)]
countryNames == [i \in 1..ListSize |-> ListName(i)]

\* name, description (optional) and url of the mailbox services
MailEntry(name, description, url) ==
  [name |-> name, description |-> description, url |-> url]
MailData(id) ==
  IF id = "m1" THEN MailEntry(<<"A", "b">>, Some(<<"d", "1">>), <<"a", ".", "b">>)
  ELSE IF id = "m2" THEN MailEntry(<<"B", "a">>, None, <<"b", ".", "D">>)
  ELSE MailEntry(<<"d">>, Some(<<"a", "B">>), <<"d", ".", "a">>)

VisibleStep == 50
SELECTOR_ITEMS_PER_PAGE == 50
DomainDebounceDelay == 300
MailDebounceDelay == 200
CountryDebounceDelay == 200

SearchInit ==
  [mounted |-> FALSE, isOpen |-> FALSE, searchQuery |-> <<>>, debouncedQuery |-> <<>>,
   timeoutRef |-> NoTimer, visibleCount |-> VisibleStep, page |-> 0]

\* DomainList: filteredDomains
filteredDomains(debouncedQuery) ==
  IF debouncedQuery = <<>> THEN allDomains
  ELSE LET query == toLowerCase(debouncedQuery)
       IN SelectSeq(allDomains, LAMBDA d : includes(toLowerCase(d), query))

\* DomainList: visibleDomains = filteredDomains.slice(0, visibleCount)
visibleDomains ==
  LET filtered == filteredDomains(search.debouncedQuery)
  IN SubSeq(filtered, 1, Min(search.visibleCount, Len(filtered)))

\* DomainList: the 'random' entry is rendered
RandomOffered == search.debouncedQuery = <<>>

\* MailPage: filteredMails
filteredMails(debouncedQuery) ==
  IF debouncedQuery = <<>> THEN tempMailList
  ELSE LET query == toLowerCase(debouncedQuery)
       IN SelectSeq(tempMailList, LAMBDA id :
            \/ includes(toLowerCase(MailData(id).name), query)
            \/ /\ MailData(id).description # None
               /\ includes(toLowerCase(TheValue(MailData(id).description)), query)
            \/ includes(toLowerCase(MailData(id).url), query))

\* phoneData: searchCountries
searchCountries(query) ==
  IF query = <<>> THEN countryNames
  ELSE SelectSeq(countryNames, LAMBDA n : includes(toLowerCase(n), toLowerCase(query)))

\* the timer of a debounce effect; its callback closes over searchQuery
DebounceTimerOf(id, delay, searchQuery) ==
  Timer(id, "debounce", delay, Null, searchQuery, 0)

DebounceKeepsPending(ts, s, delay) ==
  Append(ts, DebounceTimerOf(NewTimerId, delay, s.searchQuery))

\* a debounce effect runs for the search text of s: the cleanup of the run
\* before and the effect clear the timer timeoutRef holds, then the effect
\* starts a timer
DebounceRestart(ts, s, delay) ==
  Append(IF s.timeoutRef # NoTimer THEN clearTimeout(ts, s.timeoutRef) ELSE ts,
         DebounceTimerOf(NewTimerId, delay, s.searchQuery))

\* a component with a debounce effect unmounts: its cleanup
DebounceCleanup(ts, s) ==
  IF s.timeoutRef # NoTimer THEN clearTimeout(ts, s.timeoutRef) ELSE ts

IsDebounceTimer(i) ==
  i \in 1..Len(timers) /\ timers[i].kind = "debounce" /\ CanFire(i)

\* --- DomainList (rendered while the domain sheet is open) ---
DomainListMount ==
  /\ route = "domainList" /\ ~search.mounted
  /\ search' = [search EXCEPT !.mounted = TRUE, !.timeoutRef = NewTimerId]
  /\ timers' = DebounceRestart(timers, search, DomainDebounceDelay)
  /\ last' = Step("listMount", "ok", "", 0)
  /\ UNCHANGED <<flag, route, home, mail, phone, storage>>

\* the search input and its clear button
DomainSearchInput(q) ==
  /\ route = "domainList" /\ search.mounted /\ q # search.searchQuery
  /\ search' = [search EXCEPT !.searchQuery = q, !.timeoutRef = NewTimerId]
  /\ timers' = DebounceRestart(timers, [search EXCEPT !.searchQuery = q], DomainDebounceDelay)
  /\ last' = Step("searchInput", "ok", q, 0)
  /\ UNCHANGED <<flag, route, home, mail, phone, storage>>

DomainDebounceTimer(i) ==
  /\ route = "domainList" /\ IsDebounceTimer(i)
  /\ search' = [search EXCEPT !.debouncedQuery = timers[i].domain,
                              !.visibleCount = VisibleStep]
  /\ timers' = RemoveAt(timers, i)
  /\ last' = Step("debounceTimer", "ok", timers[i].domain, 0)
  /\ UNCHANGED <<flag, route, home, mail, phone, storage>>

RevealPastEnd(visibleCount, length) == visibleCount + VisibleStep

\* setVisibleCount(prev => Math.min(prev + 50, filteredDomains.length))
RevealMore(visibleCount, length) == Min(visibleCount + VisibleStep, length)

\* the IntersectionObserver callback with the sentinel in view
DomainIntersect ==
  /\ route = "domainList" /\ search.mounted
  /\ LET length == Len(filteredDomains(search.debouncedQuery))
     IN /\ search.visibleCount < length
        /\ search' = [search EXCEPT !.visibleCount = RevealMore(@, length)]
  /\ last' = Step("intersect", "ok", "", 0)
  /\ UNCHANGED <<flag, route, home, mail, phone, storage, timers>>

\* an entry is picked or the sheet is closed: DomainList unmounts
DomainListUnmount ==
  /\ route = "domainList" /\ search.mounted
  /\ search' = SearchInit
  /\ timers' = DebounceCleanup(timers, search)
  /\ last' = Step("listUnmount", "ok", "", 0)
  /\ UNCHANGED <<flag, route, home, mail, phone, storage>>

\* --- the search box of MailPage ---
MailSearchMount ==
  /\ route = "mailSearch" /\ ~search.mounted
  /\ search' = [search EXCEPT !.mounted = TRUE, !.timeoutRef = NewTimerId]
  /\ timers' = DebounceRestart(timers, search, MailDebounceDelay)
  /\ last' = Step("listMount", "ok", "", 0)
  /\ UNCHANGED <<flag, route, home, mail, phone, storage>>

MailSearchInput(q) ==
  /\ route = "mailSearch" /\ search.mounted /\ q # search.searchQuery
  /\ search' = [search EXCEPT !.searchQuery = q, !.timeoutRef = NewTimerId]
  /\ timers' = DebounceRestart(timers, [search EXCEPT !.searchQuery = q], MailDebounceDelay)
  /\ last' = Step("searchInput", "ok", q, 0)
  /\ UNCHANGED <<flag, route, home, mail, phone, storage>>

MailDebounceTimer(i) ==
  /\ route = "mailSearch" /\ IsDebounceTimer(i)
  /\ search' = [search EXCEPT !.debouncedQuery = timers[i].domain]
  /\ timers' = RemoveAt(timers, i)
  /\ last' = Step("debounceTimer", "ok", timers[i].domain, 0)
  /\ UNCHANGED <<flag, route, home, mail, phone, storage>>

MailSearchUnmount ==
  /\ route = "mailSearch" /\ search.mounted
  /\ search' = SearchInit
  /\ timers' = DebounceCleanup(timers, search)
  /\ last' = Step("listUnmount", "ok", "", 0)
  /\ UNCHANGED <<flag, route, home, mail, phone, storage>>

\* --- CountrySelector (stays mounted with the phone page) ---
SelectorMount ==
  /\ route = "countrySelector" /\ ~search.mounted
  /\ search' = [search EXCEPT !.mounted = TRUE, !.timeoutRef = NewTimerId]
  /\ timers' = DebounceRestart(timers, search, CountryDebounceDelay)
  /\ last' = Step("listMount", "ok", "", 0)
  /\ UNCHANGED <<flag, route, home, mail, phone, storage>>

\* isOpen becomes true: the effect on [isOpen] empties the search box and
\* goes to page 0; the debounce effect runs when the search text changed
SelectorOpen ==
  /\ route = "countrySelector" /\ search.mounted /\ ~search.isOpen
  /\ IF search.searchQuery # <<>>
     THEN /\ search' = [search EXCEPT !.isOpen = TRUE, !.searchQuery = <<>>,
                                      !.page = 0, !.timeoutRef = NewTimerId]
          /\ timers' = DebounceRestart(timers, [search EXCEPT !.searchQuery = <<>>],
                                       CountryDebounceDelay)
     ELSE /\ search' = [search EXCEPT !.isOpen = TRUE, !.page = 0]
          /\ timers' = timers
  /\ last' = Step("selectorOpen", "ok", "", 0)
  /\ UNCHANGED <<flag, route, home, mail, phone, storage>>

\* onClose: the overlay, the close button or the click on a country
SelectorClose ==
  /\ route = "countrySelector" /\ search.mounted /\ search.isOpen
  /\ search' = [search EXCEPT !.isOpen = FALSE]
  /\ last' = Step("selectorClose", "ok", "", 0)
  /\ UNCHANGED <<flag, route, home, mail, phone, storage, timers>>

SelectorSearchInput(q) ==
  /\ route = "countrySelector" /\ search.mounted /\ search.isOpen
  /\ q # search.searchQuery
  /\ search' = [search EXCEPT !.searchQuery = q, !.timeoutRef = NewTimerId]
  /\ timers' = DebounceRestart(timers, [search EXCEPT !.searchQuery = q], CountryDebounceDelay)
  /\ last' = Step("searchInput", "ok", q, 0)
  /\ UNCHANGED <<flag, route, home, mail, phone, storage>>

SelectorDebounceTimer(i) ==
  /\ route = "countrySelector" /\ IsDebounceTimer(i)
  /\ search' = [search EXCEPT !.debouncedQuery = timers[i].domain, !.page = 0]
  /\ timers' = RemoveAt(timers, i)
  /\ last' = Step("debounceTimer", "ok", timers[i].domain, 0)
  /\ UNCHANGED <<flag, route, home, mail, phone, storage>>

selectorTotalPages ==
  Ceil(Len(searchCountries(search.debouncedQuery)), SELECTOR_ITEMS_PER_PAGE)

SelectorPrevPage ==
  /\ route = "countrySelector" /\ search.mounted /\ search.isOpen
  /\ selectorTotalPages > 1 /\ search.page # 0
  /\ search' = [search EXCEPT !.page = Max(0, @ - 1)]
  /\ last' = Step("selectorPrev", "ok", "", 0)
  /\ UNCHANGED <<flag, route, home, mail, phone, storage, timers>>

SelectorNextPage ==
  /\ route = "countrySelector" /\ search.mounted /\ search.isOpen
  /\ selectorTotalPages > 1 /\ search.page < selectorTotalPages - 1
  /\ search' = [search EXCEPT !.page = Min(selectorTotalPages - 1, @ + 1)]
  /\ last' = Step("selectorNext", "ok", "", 0)
  /\ UNCHANGED <<flag, route, home, mail, phone, storage, timers>>

\* ------------------------------------------------------------------------
\* Specifications
\* ------------------------------------------------------------------------
Routes == {"home", "mail", "phone"}

\* what local storage may hold when the page is opened
SavedCountryIds == {Null, "XX"}
SavedCounts == {None, Some(<<"9", "9", "9", "9", "9">>)}

\* texts typed into the count input
CountInputs == {<<"0">>, <<"2", "1">>}
GenCountInputs ==
  {<<"a">>, <<"0">>, <<"2", "0", "0", "0">>, <<"2", "0", "0", "1">>,
   <<"1", "0", "0", "0", "0">>, <<"1", "0", "0", "0", "1">>}

\* ... to ask for a list longer than one page, then for a shorter one
RunCountInputs == {<<"0">>, <<"2", "1">>, <<"5">>}

\* the entries picked in the domain sheet: 'random' and one named domain
DomainChoices == {"random", "a.com"}

\* the rows clicked for copying: two of the six rows of the identity card
CopyLabels == {"lastName", "email"}

StorageInit(r) ==
  {st \in [country : SavedCountryIds, count : SavedCounts, favorites : SUBSET MailIds] :
     /\ r # "phone" => st.country = Null /\ st.count = None
     /\ r # "mail" => st.favorites = {}}

\* the page of route r after its first render, with a CountryFlag f
InitPageWith(r, f) ==
  /\ route = r
  /\ \E pick \in AllDomains :
       /\ home = HomeInit(pick)
       /\ route # "home" => pick = "a.com"
  /\ mail = MailInit
  /\ phone = PhoneInit
  /\ storage \in StorageInit(route)
  /\ timers = <<>>
  /\ last = Step("init", "ok", "", 0)
  /\ search = SearchInit
  /\ flag = f

InitPage(r) == InitPageWith(r, FlagInit("US", {}))

Init == \E r \in Routes : InitPage(r)

\* the page is loaded again: component state starts over, pending timers
\* are gone, local storage stays
PageMounted ==
  IF route = "home" THEN home.mounted
  ELSE IF route = "mail" THEN mail.mounted ELSE phone.mounted

Reload ==
  /\ PageMounted
  /\ \E pick \in AllDomains :
       /\ home' = HomeInit(pick)
       /\ route # "home" => pick = "a.com"
  /\ mail' = MailInit
  /\ phone' = PhoneInit
  /\ timers' = <<>>
  /\ last' = Step("reload", "ok", "", 0)
  /\ UNCHANGED <<search, flag, route, storage>>

NextHome ==
  \/ HomeMount
  \/ HomeGenerate
  \/ \E i \in 1..MaxTimers + 1 : HomeGenerateTimer(i)
  \/ \E c \in CountryCodes : handleCountrySelect(c)
  \/ \E d \in DomainChoices : handleDomainSelect(d)
  \/ \E l \in CopyLabels : copyToClipboard(l)
  \/ \E i \in 1..MaxTimers + 1 : HomeCopyTimer(i)
  \/ IpLookupError
  \/ \E data \in IpResponses : IpLookupResult(data)

NextMail ==
  \/ MailLoadFavorites
  \/ \E id \in MailIds : handleToggleFavorite(id)
  \/ \E id \in MailIds : MailHandleCopy(id)
  \/ \E i \in 1..MaxTimers + 1 : MailCopyTimer(i)

NextPhone ==
  \/ PhoneLoadSettings
  \/ \E c \in PhoneCountryIds : handleSelectCountry(c)
  \/ \E v \in CountInputs : CountChange(v)
  \/ handleGenerate
  \/ \E i \in 1..MaxTimers + 1 : GenerateTimer(i)
  \/ PrevPage
  \/ NextPage
  \/ \E k \in 0..(2 * ITEMS_PER_PAGE) : PhoneHandleCopy(k)
  \/ \E i \in 1..MaxTimers + 1 : PhoneCopyTimer(i)
  \/ handleCopyAll
  \/ \E i \in 1..MaxTimers + 1 : CopyAllTimer(i)

Next == NextHome \/ NextMail \/ NextPhone \/ Reload

\* any of the three pages
Spec == Init /\ [][Next]_vars

\* one page each
InitHome == InitPage("home")
NextHomePage == NextHome \/ Reload
SpecHome == InitHome /\ [][NextHomePage]_vars

InitMail == InitPage("mail")
NextMailPage == NextMail \/ Reload
SpecMail == InitMail /\ [][NextMailPage]_vars

InitPhone == InitPage("phone")
NextPhonePage == NextPhone \/ Reload
SpecPhone == InitPhone /\ [][NextPhonePage]_vars

\* The phone-number generator alone, with counts up to the cap
InitGen == InitPage("phone") /\ storage.country = Null

NextGen ==
  \/ PhoneLoadSettings
  \/ \E c \in PhoneCountryIds : handleSelectCountry(c)
  \/ \E v \in GenCountInputs : CountChange(v)
  \/ handleGenerate
  \/ \E i \in 1..MaxTimers + 1 : GenerateTimer(i)
  \/ Reload

SpecGen == InitGen /\ [][NextGen]_vars

\* The searchable lists, one at a time
ListRoutes == {"domainList", "mailSearch", "countrySelector"}

\* texts typed into a search box
SearchQueries ==
  {<<>>, <<"A", "b">>, <<"b", "1">>, <<"1">>, <<"z">>, <<".">>}

InitLists == \E r \in ListRoutes : InitPage(r)

DebounceFires ==
  \E i \in 1..MaxTimers + 1 :
     DomainDebounceTimer(i) \/ MailDebounceTimer(i) \/ SelectorDebounceTimer(i)

NextLists ==
  \/ DomainListMount
  \/ \E q \in SearchQueries : DomainSearchInput(q)
  \/ DomainIntersect
  \/ DomainListUnmount
  \/ MailSearchMount
  \/ \E q \in SearchQueries : MailSearchInput(q)
  \/ MailSearchUnmount
  \/ SelectorMount
  \/ SelectorOpen
  \/ SelectorClose
  \/ \E q \in SearchQueries : SelectorSearchInput(q)
  \/ SelectorPrevPage
  \/ SelectorNextPage
  \/ DebounceFires

SpecLists == InitLists /\ [][NextLists]_vars

\* ... where the browser runs every timer that stays pending
SpecListsFair == SpecLists /\ WF_vars(DebounceFires)

\* The identity page with its IP lookup and one CountryFlag, both of which
\* may unmount while their asynchronous work is in flight
InitStale ==
  \E c \in FlagCodes : \E cache \in SUBSET FlagExports :
     InitPageWith("home", FlagInit(c, cache))

NextStale ==
  \/ HomeMount
  \/ \E i \in 1..MaxTimers + 1 : HomeGenerateTimer(i)
  \/ IpLookupError
  \/ \E data \in IpResponses : IpLookupResult(data)
  \/ HomeUnmount
  \/ NextFlag

SpecStale == InitStale /\ [][NextStale]_vars

\* The identity page with its inbox button, while identities are generated
InitInbox == InitPage("home")

HomeGenerationFires == \E i \in 1..MaxTimers + 1 : HomeGenerateTimer(i)

InboxTimerFires == \E i \in 1..MaxTimers + 1 : InboxTimer(i)

NextInbox ==
  \/ HomeMount
  \/ HomeGenerate
  \/ \E c \in CountryCodes : handleCountrySelect(c)
  \/ handleInboxClick
  \/ HomeGenerationFires
  \/ InboxTimerFires

SpecInbox == InitInbox /\ [][NextInbox]_vars

\* ... where the browser runs every timer that stays pending
SpecInboxFair ==
  SpecInbox /\ WF_vars(HomeGenerationFires) /\ WF_vars(InboxTimerFires)

\* Generation runs on the identity page and on the phone-number page:
\* everything that starts a run, changes what a run closes over or changes
\* what is shown while a run is pending
InitRuns == InitPage("home") \/ InitPage("phone")

GenerationTimerFires ==
  \E i \in 1..MaxTimers + 1 : HomeGenerateTimer(i) \/ GenerateTimer(i)

NextRuns ==
  \/ HomeMount
  \/ HomeGenerate
  \/ \E c \in CountryCodes : handleCountrySelect(c)
  \/ \E d \in DomainChoices : handleDomainSelect(d)
  \/ IpLookupError
  \/ \E data \in IpResponses : IpLookupResult(data)
  \/ PhoneLoadSettings
  \/ \E c \in PhoneCountryIds : handleSelectCountry(c)
  \/ \E v \in RunCountInputs : CountChange(v)
  \/ handleGenerate
  \/ PrevPage
  \/ NextPage
  \/ GenerationTimerFires
  \/ Reload

SpecRuns == InitRuns /\ [][NextRuns]_vars

\* ... where the browser runs every generation timer that is pending
SpecRunsFair == SpecRuns /\ WF_vars(GenerationTimerFires)
\* ------------------------------------------------------------------------
\* Properties
\* ------------------------------------------------------------------------

\* C1: a generation that completes without a generation error leaves the
\* list with exactly the requested number of entries, on the single-pass
\* path and on the batched path (checked under SpecGen)
GenerateReturnsRequestedCount ==
  (last.op = "generateTimer" /\ last.out # "generationError")
    => /\ last.num \in 1..MaxCount
       /\ Len(phone.generatedNumbers) = last.num

\* a batched generation of a count that is not a multiple of the batch size
\* has completed
BatchedGenerationDone ==
  /\ last.op = "generateTimer" /\ last.out = "ok"
  /\ last.num > SinglePassMax /\ last.num % batchSize # 0
  /\ Len(phone.generatedNumbers) = last.num

\* C2: every entry of the generated list was produced from the template of
\* the country that is selected (checked under SpecPhone)
NumbersMatchSelectedCountry ==
  \A k \in 1..Len(phone.generatedNumbers) :
    phone.generatedNumbers[k] = phone.selectedCountry

\* C3: every identity generation passes a custom domain exactly when the
\* domain selected when it starts is not 'random', and then passes the
\* selected domain: the generation of detectIP with the domain selected when
\* the lookup result arrives, the timer callback of generate() with the
\* domain selected when generate() was called (checked under SpecHome)
CustomDomainFollowsSelection ==
  [][/\ (last'.op = "ipResult" /\ last'.out = "generated")
          => last'.str = (IF home.selectedDomain = "random" THEN Undefined
                          ELSE home.selectedDomain)
     /\ (last'.op = "homeGenerateTimer" /\ last'.out = "ok")
          => \E i \in 1..Len(timers) :
               /\ timers' = RemoveAt(timers, i)
               /\ last'.str = (IF timers[i].domain = "random" THEN Undefined
                               ELSE timers[i].domain)]_vars

\* C4: a toggle changes the displayed favorite status of no other mailbox,
\* and the second of two toggles of the same mailbox in a row returns the
\* displayed favorites to the set before the first (checked under SpecMail)
ToggleTwiceRestores ==
  [][last'.op = "toggleFavorite"
       => /\ \A id \in MailIds \ {last'.str} :
               (id \in mail'.favorites) <=> (id \in mail.favorites)
          /\ (last.op = "toggleFavorite" /\ last.str = last'.str)
               => mail'.favorites = last.pre]_vars

\* the same mailbox was toggled twice in a row and is a favorite again
ToggledTwice ==
  /\ last.op = "toggleFavorite" /\ last.num = 2
  /\ last.str \in mail.favorites
  /\ mail.favorites # MailIds

\* C5: when the fetch or the parsing of the IP lookup fails while the page
\* is mounted, ipInfo becomes the fallback and the selected country, the
\* identity and the pending timers are unchanged (checked under SpecHome)
IpFailureFallsBack ==
  [][(last'.op = "ipResult" /\ last'.out \in {"fetchError", "parseError"} /\ home.mounted)
       => /\ home'.ipInfo = [ip |-> "unknown", country |-> "US"]
          /\ home'.selectedCountry = home.selectedCountry
          /\ home'.userInfo = home.userInfo
          /\ timers' = timers]_vars

\* the lookup failed after the user had chosen another country and domain
IpFailedAfterSelection ==
  /\ last.op = "ipResult" /\ last.out = "parseError"
  /\ home.ipInfo = IpFallback
  /\ home.selectedCountry # countries[1]
  /\ home.selectedDomain # "random"

\* C6: count is always in 1..10000 and the list never holds more than
\* 10000 entries; an input whose parsed value is not a number or is out of
\* range leaves count unchanged; the settings-load effect changes count only
\* to a saved value in range (checked under SpecGen)
InCountRange(v) == v # NaN /\ v[1] >= 1 /\ v[1] <= 10000

CountStaysInRange ==
  [][/\ phone.count \in 1..10000 /\ phone'.count \in 1..10000
     /\ Len(phone.generatedNumbers) <= 10000 /\ Len(phone'.generatedNumbers) <= 10000
     /\ (last'.op = "countChange" /\ ~InCountRange(parseInt(last'.pre)))
          => phone'.count = phone.count
     /\ (last'.op = "loadSettings" /\ phone'.count # phone.count)
          => /\ last'.pre # None
             /\ InCountRange(parseInt(TheValue(last'.pre)))
             /\ phone'.count = parseInt(TheValue(last'.pre))[1]]_vars

\* an input above the cap was rejected while count and the list are at the cap
InputAboveCapRejected ==
  /\ last.op = "countChange" /\ parseInt(last.pre) = <<10001>>
  /\ phone.count = 10000
  /\ Len(phone.generatedNumbers) = 10000

\* C7: the six fields of userInfo always come from one generation run; an
\* update of userInfo replaces all six by values of a new run; a run that
\* throws leaves the record unchanged (checked under SpecHome)
OneRun(u) == Cardinality(Runs(u)) = 1

UserInfoReplacedWhole ==
  [][/\ OneRun(home.userInfo) /\ OneRun(home'.userInfo)
     /\ (home'.userInfo # home.userInfo /\ last'.op # "reload")
          => Runs(home'.userInfo) \cap Runs(home.userInfo) = {}
     /\ last'.out = "generationError" => home'.userInfo = home.userInfo]_vars

\* a generation run replaced the initial record
RecordRegenerated ==
  /\ last.op = "homeGenerateTimer" /\ last.out = "ok"
  /\ home.userInfo.email.run # 0
  /\ home.userInfo.phone.of # countries[1]

\* C8 as stated: a successful copy of another field G leaves the copied
\* indication of F in place (checked under SpecHome)
CopiedFeedbackPerField ==
  [][\A f \in Labels :
       (home.copiedField = f /\ last'.op = "homeCopy" /\ last'.out = "ok" /\ last'.str # f)
         => home'.copiedField = f]_vars

\* C8 as amended: one indicator for all fields.  A successful copy shows
\* exactly the copied field; the indication of a field ends only by a later
\* copy, by its timer, by a call of generate() or by a reload; while a field
\* is shown as copied exactly one feedback timer is pending, the one of the
\* copy that set it (checked under SpecHome)
CopyFieldTimers == {i \in 1..Len(timers) : timers[i].kind = "copyField"}

CopiedFeedbackShared ==
  [][/\ (last'.op = "homeCopy" /\ last'.out = "ok") => home'.copiedField = last'.str
     /\ (home.copiedField # Null /\ home'.copiedField # home.copiedField)
          => last'.op \in {"homeCopy", "homeCopyTimer", "homeGenerate",
                           "countrySelect", "ipResult", "reload"}
     /\ home.copiedField # Null
          => /\ Cardinality(CopyFieldTimers) = 1
             /\ \A i \in CopyFieldTimers : timers[i].id = home.copyTimerRef]_vars

\* a field was copied while another field was shown as copied
CopiedWhileOtherShown ==
  /\ last.op = "homeCopy" /\ last.out = "ok"
  /\ last.pre \in Labels \ {last.str}
  /\ home.copiedField = last.str

\* C9: a failed clipboard write, on any page, changes no page state, starts
\* no timer, cancels no timer and writes nothing (checked under Spec)
ClipboardFailureChangesNothing ==
  [][last'.out = "clipboardError"
       => /\ home' = home /\ mail' = mail /\ phone' = phone
          /\ timers' = timers /\ storage' = storage]_vars

\* a clipboard write failed while a field was shown as copied and its
\* feedback timer was pending
ClipboardFailedWhileShown ==
  /\ last.op = "homeCopy" /\ last.out = "clipboardError"
  /\ home.copiedField \in Labels \ {last.str}
  /\ \E i \in 1..Len(timers) : timers[i].id = home.copyTimerRef

\* C10: a failed storage read at startup selects the first country and keeps
\* count at 10; a failed write on selection still applies the selection; a
\* failed write after a generation still installs the list and ends the
\* generation (checked under SpecPhone)
StorageFailuresDegrade ==
  /\ (last.op = "loadSettings" /\ last.out = "readError")
       => phone.selectedCountry = phoneCountries[1] /\ phone.count = 10
  /\ (last.op = "selectCountry" /\ last.out = "writeError")
       => phone.selectedCountry = last.str
  /\ (last.op = "generateTimer" /\ last.out = "writeError")
       => /\ Len(phone.generatedNumbers) = last.num
          /\ \A k \in 1..Len(phone.generatedNumbers) : phone.generatedNumbers[k] = last.str
          /\ ~phone.isGenerating

\* the write failed when a country other than the saved one was selected
SelectionAppliedUnsaved ==
  /\ last.op = "selectCountry" /\ last.out = "writeError"
  /\ phone.selectedCountry = last.str
  /\ storage.country # last.str

\* C11: once the identity page has unmounted, an IP lookup that ends
\* afterwards (with a response or with an error) changes none of ipInfo,
\* selectedCountry and userInfo; once a CountryFlag has unmounted, a flag
\* load that settles afterwards does not set the flag it displays.
StaleResultsIgnored ==
  [][/\ (home.unmounted /\ last'.op = "ipResult")
          => /\ home'.ipInfo = home.ipInfo
             /\ home'.selectedCountry = home.selectedCountry
             /\ home'.userInfo = home.userInfo
     /\ (flag.unmounted /\ last'.op = "flagLoad")
          => flag'.FlagComponent = flag.FlagComponent]_vars

\* the lookup ended after the page unmounted and a flag was loaded after the
\* CountryFlag unmounted
StaleResultsDropped ==
  /\ home.unmounted /\ home.ipLookup = "done" /\ home.ipInfo = IpPlaceholder
  /\ flag.unmounted /\ flag.FlagComponent = Null
  /\ last.op = "flagLoad" /\ last.out = "ok"

\* C12: the selected country survives a reload: a selection that is saved
\* writes the id of the selected country, nothing else changes the saved id,
\* and the settings-load effect that reads storage selects the country with
\* the saved id, or the first country of the table when no id is saved or
\* the saved id is not in the table.
SelectedCountrySurvivesReload ==
  [][/\ (last'.op = "selectCountry" /\ last'.out = "ok")
          => storage'.country = last'.str /\ phone'.selectedCountry = last'.str
     /\ storage'.country # storage.country
          => last'.op = "selectCountry" /\ last'.out = "ok"
     /\ (last'.op = "loadSettings" /\ last'.out = "ok")
          => phone'.selectedCountry =
               (IF storage.country \in PhoneCountryIds THEN storage.country
                ELSE phoneCountries[1])]_vars

\* the page was loaded again after a country other than the first was saved
CountryRestored ==
  /\ last.op = "loadSettings" /\ last.out = "ok"
  /\ storage.country = phoneCountries[2]
  /\ phone.selectedCountry = phoneCountries[2]

\* C13: the saved count is the count of the last completed generation: the
\* count key is written only by a generation run that completes, with the
\* count that run used (the length of the list it installs), never by an
\* edit of the count input; the settings-load effect that reads storage
\* installs the saved count, or keeps the default 10 when none is saved.
SavedCountIsLastGeneration ==
  [][/\ (last'.op = "generateTimer" /\ last'.out = "ok")
          => /\ storage'.count = Some(toString(last'.num))
             /\ storage'.count = Some(toString(Len(phone'.generatedNumbers)))
     /\ storage'.count # storage.count
          => last'.op = "generateTimer" /\ last'.out = "ok"
     /\ (last'.op = "loadSettings" /\ last'.out = "ok")
          => IF \E n \in 1..MaxCount : storage.count = Some(toString(n))
             THEN storage.count = Some(toString(phone'.count))
             ELSE phone'.count = DefaultCount]_vars

\* the page was loaded again after a generation of 2001 numbers completed
CountRestored ==
  /\ last.op = "loadSettings" /\ last.out = "ok"
  /\ storage.count = Some(<<"2", "0", "0", "1">>)
  /\ phone.count = 2001

\* C14: the list filters are case-insensitive substring filters that keep
\* the order of the list: for the applied query q the domain list holds
\* exactly the domains whose lower-cased name contains lower-cased q, the
\* mailbox list exactly the entries whose name, description (when there is
\* one) or url does, and the empty query gives the whole list.
SameLetter(a, b) ==
  \/ a = b
  \/ \E k \in 1..Len(UpperChars) : {a, b} = {UpperChars[k], LowerChars[k]}

ContainsIgnoringCase(s, q) ==
  \E i \in 0..(Len(s) - Len(q)) : \A k \in 1..Len(q) : SameLetter(s[i + k], q[k])

PositionIn(list, x) == CHOOSE i \in 1..Len(list) : list[i] = x

\* result holds the entries of list (which has no entry twice) that Keep
\* accepts, each once, in the order of list
IsFilterOf(result, list, Keep(_)) ==
  /\ {result[k] : k \in 1..Len(result)} = {list[i] : i \in {j \in 1..Len(list) : Keep(list[j])}}
  /\ Len(result) = Cardinality({result[k] : k \in 1..Len(result)})
  /\ \A k \in 1..(Len(result) - 1) :
        PositionIn(list, result[k]) < PositionIn(list, result[k + 1])

MailMatches(id, q) ==
  \/ ContainsIgnoringCase(MailData(id).name, q)
  \/ /\ MailData(id).description # None
     /\ ContainsIgnoringCase(TheValue(MailData(id).description), q)
  \/ ContainsIgnoringCase(MailData(id).url, q)

FiltersAreSubstringFilters ==
  LET q == search.debouncedQuery
  IN /\ route = "domainList"
          => /\ IsFilterOf(filteredDomains(q), allDomains,
                           LAMBDA d : ContainsIgnoringCase(d, q))
             /\ q = <<>> => filteredDomains(q) = allDomains
     /\ route = "mailSearch"
          => /\ IsFilterOf(filteredMails(q), tempMailList, LAMBDA id : MailMatches(id, q))
             /\ q = <<>> => filteredMails(q) = tempMailList

\* a query in lower case is applied to the domain list and keeps some of
\* the domains, among them one written with an upper-case letter
QueryAppliedToDomains ==
  /\ route = "domainList" /\ search.debouncedQuery = <<"b", "1">>
  /\ Len(filteredDomains(search.debouncedQuery)) \in 1..(ListSize - 1)
  /\ filteredDomains(search.debouncedQuery)[1] = <<"B", "1", ".", "c">>

\* C15: in the domain, mailbox and country lists the applied query changes
\* only when the debounce timer of the list fires (300 ms for domains,
\* 200 ms for mailboxes and countries); every change of the search input
\* cancels the pending timer, so at most one debounce timer is pending, it
\* carries the search input of the moment, and a value that was overwritten
\* is never applied; whenever no timer is pending the applied query equals
\* the search input; a search input that differs from the applied query is
\* eventually applied or replaced.
PendingDebounce == {i \in 1..Len(timers) : timers[i].kind = "debounce"}

DebounceDelayOf(r) == IF r = "domainList" THEN 300 ELSE 200

DebounceInvariant ==
  /\ Cardinality(PendingDebounce) <= 1
  /\ \A i \in PendingDebounce :
        /\ timers[i].domain = search.searchQuery
        /\ timers[i].delay = DebounceDelayOf(route)
        /\ timers[i].id = search.timeoutRef
  /\ PendingDebounce = {} => search.debouncedQuery = search.searchQuery

DebounceApplies ==
  /\ []DebounceInvariant
  /\ [][(search.mounted /\ search'.mounted
           /\ search'.debouncedQuery # search.debouncedQuery)
          => /\ last'.op = "debounceTimer"
             /\ PendingDebounce # {}
             /\ search'.debouncedQuery = search.searchQuery]_vars
  /\ (search.debouncedQuery # search.searchQuery)
       ~> (search.debouncedQuery = search.searchQuery)

\* a search input that replaced another one waits for its timer while an
\* earlier query is applied
SearchInputPending ==
  /\ search.mounted /\ PendingDebounce # {}
  /\ search.searchQuery = <<"z">> /\ search.debouncedQuery = <<"1">>

\* C16: a run for a count above 2000 calls the generator once per batch, in
\* order: the number of batches is the count divided by 1000 and rounded up,
\* every batch but the last has 1000 numbers, the last one has
\* count - 1000 * (batches - 1), which lies in 1..1000, the sizes add up to
\* the count and the list installed is the concatenation of the batches; a
\* run for a count of at most 2000 is one call for the whole count.
RECURSIVE SumOf(_)
SumOf(sizes) == IF sizes = <<>> THEN 0 ELSE Head(sizes) + SumOf(Tail(sizes))

RECURSIVE ConcatBatches(_, _)
ConcatBatches(country, sizes) ==
  IF sizes = <<>> THEN <<>>
  ELSE [k \in 1..Head(sizes) |-> country] \o ConcatBatches(country, Tail(sizes))

BatchesPartitionCount ==
  (last.op = "generateTimer" /\ last.out # "generationError")
    => LET count == last.num
           calls == last.pre
           batches == Len(calls)
       IN /\ IF count > 2000
             THEN /\ 1000 * (batches - 1) < count /\ count <= 1000 * batches
                  /\ \A b \in 1..(batches - 1) : calls[b] = 1000
                  /\ calls[batches] = count - 1000 * (batches - 1)
                  /\ calls[batches] \in 1..1000
             ELSE calls = <<count>>
          /\ SumOf(calls) = count
          /\ phone.generatedNumbers = ConcatBatches(last.str, calls)

\* a run of three batches whose last batch has one number
LastBatchOfOne ==
  /\ last.op = "generateTimer" /\ last.out = "ok"
  /\ last.pre = <<1000, 1000, 1>>

DisplayedFavoritesArePersisted ==
  mail.mounted => mail.favorites = {id \in MailIds : id \in storage.favorites}

FavoritesMirrorPersistence ==
  /\ []DisplayedFavoritesArePersisted
  /\ [][last'.op = "toggleFavorite"
          => /\ \A id \in MailIds \ {last'.str} :
                   (id \in mail'.favorites) = (id \in mail.favorites)
             /\ (last'.str \in mail'.favorites) = (last'.str \in storage'.favorites)
             /\ (last'.str \in mail'.favorites) # (last'.str \in mail.favorites)]_vars

\* a favorite loaded at mount was toggled off while another one stays
FavoriteToggledOff ==
  /\ mail.mounted /\ last.op = "toggleFavorite" /\ last.num = 1
  /\ last.str \in last.pre /\ last.str \notin mail.favorites
  /\ mail.favorites # {}

\* C19: pagination of the generated numbers is a partition in order: page p
\* shows exactly the entries p * 20 .. min(p * 20 + 20, length) - 1, in
\* order; the pages 0 .. ceil(length / 20) - 1 are pairwise disjoint and
\* together show every entry once; the previous and next buttons keep a page
\* index that lies in 0 .. ceil(length / 20) - 1 in that range.
PageCount(length) == (length + 19) \div 20

RECURSIVE ConcatPages(_, _, _)
ConcatPages(length, p, pages) ==
  IF p < pages THEN paginatedNumbersAt(length, p) \o ConcatPages(length, p + 1, pages)
  ELSE <<>>

PagesPartitionList ==
  LET length == Len(phone.generatedNumbers)
  IN /\ \A p \in 0..(PageCount(length) - 1) :
          LET first == p * 20
              after == IF p * 20 + 20 < length THEN p * 20 + 20 ELSE length
          IN paginatedNumbersAt(length, p) = [k \in 1..(after - first) |-> first + k - 1]
     /\ ConcatPages(length, 0, PageCount(length)) = [k \in 1..length |-> k - 1]

PaginationIsPartition ==
  /\ []PagesPartitionList
  /\ [][(last'.op \in {"prevPage", "nextPage"}
           /\ phone.page \in 0..(PageCount(Len(phone.generatedNumbers)) - 1))
          => /\ phone'.page \in 0..(PageCount(Len(phone'.generatedNumbers)) - 1)
             /\ phone'.page = phone.page + (IF last'.op = "nextPage" THEN 1 ELSE 0 - 1)]_vars

\* the second page of a list of 21 numbers shows the last one
LastPageShown ==
  /\ Len(phone.generatedNumbers) = 21 /\ phone.page = 1 /\ last.op = "nextPage"
  /\ paginatedIndices = {20}

\* C20: the domains shown are always the first min(visibleCount, number of
\* filtered domains) entries of the filtered list, in order; visibleCount
\* starts at 50, goes back to 50 whenever a debounced query is applied, and
\* each intersection of the sentinel raises it by 50 but never above the
\* number of filtered domains; the 'random' entry is offered only while the
\* applied query is empty.
FilteredCount == Len(filteredDomains(search.debouncedQuery))

ShownIsPrefix ==
  route = "domainList"
    => LET shown == IF search.visibleCount < FilteredCount
                    THEN search.visibleCount ELSE FilteredCount
       IN /\ Len(visibleDomains) = shown
          /\ \A k \in 1..shown : visibleDomains[k] = filteredDomains(search.debouncedQuery)[k]
          /\ ~search.mounted => search.visibleCount = 50
          /\ RandomOffered <=> search.debouncedQuery = <<>>

IncrementalReveal ==
  /\ []ShownIsPrefix
  /\ [][route = "domainList"
          => /\ last'.op = "listMount" => search'.visibleCount = 50
             /\ last'.op = "debounceTimer" => search'.visibleCount = 50
             /\ last'.op = "intersect"
                  => /\ search'.visibleCount <= FilteredCount
                     /\ \/ search'.visibleCount = search.visibleCount + 50
                        \/ search'.visibleCount = FilteredCount
                     /\ search'.visibleCount > search.visibleCount
             /\ search'.visibleCount # search.visibleCount
                  => last'.op \in {"debounceTimer", "intersect", "listUnmount"}]_vars

\* two intersections revealed the whole unfiltered list, the second one
\* capped by its length
WholeListRevealed ==
  /\ route = "domainList" /\ last.op = "intersect"
  /\ search.visibleCount = ListSize /\ Len(visibleDomains) = ListSize

\* C21: every generate request finishes: the timer callback of a run sets
\* isGenerating to false on the identity page and on the phone-number page,
\* also when the generation or the storage write throws, so isGenerating
\* does not stay true; a generation error leaves the identity or the number
\* list that was shown unchanged.
GenerateRequestFinishes ==
  /\ [][/\ last'.op = "homeGenerateTimer"
             => /\ ~home'.isGenerating
                /\ last'.out = "generationError" => home'.userInfo = home.userInfo
        /\ last'.op = "generateTimer"
             => /\ ~phone'.isGenerating
                /\ last'.out = "generationError"
                     => phone'.generatedNumbers = phone.generatedNumbers]_vars
  /\ home.isGenerating ~> ~home.isGenerating
  /\ phone.isGenerating ~> ~phone.isGenerating

\* a generation error ended a run while a list was shown
RunFailedListKept ==
  /\ last.op = "generateTimer" /\ last.out = "generationError"
  /\ phone.generatedNumbers # <<>> /\ ~phone.isGenerating

\* C22: on the identity page the field last copied is recorded for two
\* seconds: after a successful copy of field F copiedField is F until the
\* timer of that copy fires, a later copy succeeds or a generate request is
\* made, which clears copiedField at once; every successful copy cancels the
\* timer of the copy before, so at most one feedback timer is pending, it is
\* the two-second timer of the last successful copy, and the timer that
\* fires is never the one of an earlier copy.
OneFeedbackTimer ==
  /\ Cardinality(CopyFieldTimers) <= 1
  /\ \A i \in CopyFieldTimers :
        timers[i].id = home.copyTimerRef /\ timers[i].delay = 2000
  /\ home.copiedField # Null => CopyFieldTimers # {}

\* C22: copiedField keeps the field last copied until its timer fires, a
\* later copy succeeds or a generate request is made, with one feedback timer
CopiedFieldHeldTwoSeconds ==
  /\ []OneFeedbackTimer
  /\ [][/\ \A f \in Labels :
             (home.copiedField = f /\ home'.copiedField # f)
               => \/ last'.op = "homeCopyTimer"
                  \/ last'.op = "homeCopy" /\ last'.out = "ok" /\ last'.str # f
                  \/ last'.op \in {"homeGenerate", "reload"}
                  \/ /\ last'.op \in {"countrySelect", "ipResult"}
                     /\ home'.selectedCountry # home.selectedCountry
        /\ (\/ last'.op = "homeGenerate"
            \/ /\ last'.op \in {"countrySelect", "ipResult"}
               /\ home'.selectedCountry # home.selectedCountry)
             => home'.copiedField = Null /\ home'.isGenerating
        /\ last'.op = "homeCopyTimer"
             => /\ CopyFieldTimers' = {}
                /\ \E i \in CopyFieldTimers : timers[i].id = home.copyTimerRef]_vars

\* a generate request cleared the copied field while the feedback timer of
\* the copy is still pending
CopiedClearedByGenerate ==
  /\ last.op = "homeGenerate" /\ home.copiedField = Null
  /\ CopyFieldTimers # {}

\* C23: on the phone-number page the page index always addresses an
\* existing page: either the generated list is empty and page is 0, or
\* 0 <= page < ceil(length / 20).
PageAddressesExistingPage ==
  LET length == Len(phone.generatedNumbers)
  IN IF length = 0 THEN phone.page = 0
     ELSE 0 <= phone.page /\ phone.page < (length + 19) \div 20

\* C24: isGenerating is true whenever a generation timer is pending, on the
\* identity page and on the phone-number page, and at most one generation
\* timer is pending at a time.
HomeGenerationTimers == {i \in 1..Len(timers) : timers[i].kind = "homeGenerate"}

PhoneGenerationTimers == {i \in 1..Len(timers) : timers[i].kind = "generate"}

\* C24: a pending generation timer implies isGenerating, and there is at
\* most one per page
GeneratingWhileTimerPending ==
  /\ HomeGenerationTimers # {} => home.isGenerating
  /\ PhoneGenerationTimers # {} => phone.isGenerating
  /\ Cardinality(HomeGenerationTimers) <= 1
  /\ Cardinality(PhoneGenerationTimers) <= 1

\* C25: on the mailbox page and the phone-number page the copied indicator
\* of a successful copy stays set until that copy's own timer fires: the
\* timer that clears an indicator is the timer of the copy that set it, so
\* no timer of a later copy of the same kind is still pending when an
\* indicator is cleared.
TimersOfKind(ts, kind) == {i \in 1..Len(ts) : ts[i].kind = kind}

\* C25: the timer that clears a copied indicator is the last one pending
CopiedClearedByOwnTimer ==
  [][/\ (last'.op = "mailCopyTimer" /\ mail.copiedId # Null)
          => TimersOfKind(timers', "copyId") = {}
     /\ (last'.op = "phoneCopyTimer" /\ phone.copiedIndex # NoIndex)
          => TimersOfKind(timers', "copyIndex") = {}
     /\ (last'.op = "copyAllTimer" /\ phone.isCopiedAll)
          => TimersOfKind(timers', "copyAll") = {}]_vars

\* C26: a CountryFlag never shows the flag of another country: in every
\* reachable state the mounted component displays either the placeholder
\* (FlagComponent is null) or the flag of its current countryCode, and the
\* flag cache holds only flags the icon module exports.
FlagOfCurrentCountry ==
  /\ flag.mounted => flag.FlagComponent \in {Null, flag.countryCode}
  /\ flag.cache \subseteq FlagExports

\* C27: on the identity page a change of the selected country leads to a
\* matching identity: the change (by selection or by IP detection) starts a
\* generation for the new country c and the selected domain d as the last
\* pending timer, and unless the selection changes again the displayed
\* identity eventually is one generated for c with d.
IdentityGeneratedFor(c, d) ==
  /\ \A f \in {"firstName", "lastName", "phone"} : home.userInfo[f].of = c
  /\ d # "random" => home.userInfo.email.of = d
  /\ \A f \in Labels : home.userInfo[f].run = home.userInfo.email.run

CountryChangedTo(c, d) ==
  /\ last.op \in {"countrySelect", "ipResult"}
  /\ home.mounted /\ home.selectedCountry = c /\ home.selectedDomain = d
  /\ timers # <<>> /\ timers[Len(timers)] = GenerateTimerOf(home)

\* a change of the selected country starts a generation for the new country
\* and the selected domain, as the last pending timer
CountryChangeStartsRun ==
  [][(/\ last'.op \in {"countrySelect", "ipResult"}
      /\ home'.selectedCountry # home.selectedCountry)
       => /\ timers' # <<>>
          /\ timers'[Len(timers')] = GenerateTimerOf(home')]_vars

\* the identity shown is one generated for c with d, and so will be the
\* identity of every run that is pending
IdentitySettledFor(c, d) ==
  /\ IdentityGeneratedFor(c, d)
  /\ \A i \in HomeGenerationTimers : timers[i].country = c /\ timers[i].domain = d

SelectCountryFrame ==
  [][last'.op = "selectCountry"
       => /\ phone'.selectedCountry = last'.str
          /\ phone'.generatedNumbers = <<>>
          /\ phone'.page = 0
          /\ phone'.count = phone.count
          /\ phone'.isGenerating = phone.isGenerating
          /\ phone' = [phone EXCEPT !.selectedCountry = last'.str,
                                    !.generatedNumbers = <<>>, !.page = 0]
          /\ timers' = timers]_vars

\* a country was selected while two pages of numbers were requested and a
\* generation was pending
CountrySelectedWhileGenerating ==
  /\ last.op = "selectCountry" /\ last.str = phone.selectedCountry
  /\ phone.isGenerating /\ PhoneGenerationTimers # {}
  /\ phone.count = 21 /\ phone.generatedNumbers = <<>> /\ phone.page = 0

\* C29: opening the inbox is single-flight: while inboxStatus is 'opening'
\* a click is ignored and exactly one open timer is pending, none while it
\* is 'idle'; an accepted click starts a 600 ms timer for the local part of
\* the email displayed at the click; when the timer fires one window is
\* opened for that login and inboxStatus returns to 'idle', which
\* eventually happens after every accepted click.
InboxTimers == {i \in 1..Len(timers) : timers[i].kind = "inbox"}

OneInboxTimer ==
  /\ home.inboxStatus \in {"idle", "opening"}
  /\ Cardinality(InboxTimers) = (IF home.inboxStatus = "opening" THEN 1 ELSE 0)
  /\ \A i \in InboxTimers : timers[i].delay = 600

\* C29: one open timer per accepted click, ignored clicks while opening,
\* the window of the clicked address, and the return to idle
InboxSingleFlight ==
  /\ []OneInboxTimer
  /\ [][/\ (last'.op = "inboxClick" /\ home.inboxStatus = "opening")
             => /\ last'.out = "ignored"
                /\ home' = home /\ timers' = timers
        /\ (last'.op = "inboxClick" /\ home.inboxStatus = "idle")
             => /\ last'.out = "ok"
                /\ home' = [home EXCEPT !.inboxStatus = "opening"]
                /\ timers' = Append(timers, Timer(NoTimer, "inbox", 600, "", "",
                                                  EmailName(home.userInfo.email)))
        /\ last'.op = "inboxTimer"
             => /\ home.inboxStatus = "opening"
                /\ home' = [home EXCEPT !.inboxStatus = "idle"]
                /\ \A i \in InboxTimers : last'.num = timers[i].count
                /\ InboxTimers' = {}
        /\ (InboxTimers # {} /\ last'.op # "inboxTimer")
             => \E i \in InboxTimers : \E j \in InboxTimers' : timers'[j] = timers[i]]_vars
  /\ (home.inboxStatus = "opening") ~> (home.inboxStatus = "idle")

\* the window was opened for the address shown at the click after another
\* identity had replaced it
InboxOpenedForClickedEmail ==
  /\ last.op = "inboxTimer" /\ home.inboxStatus = "idle"
  /\ last.num # EmailName(home.userInfo.email)
====
